---- MODULE Spec2Model ----
(***************************************************************************)
(* Model of database_tool.py: the module-level function find_driver and    *)
(* the class MSSQLDatabaseManager (__init__, run_query, disconnect).       *)
(*                                                                         *)
(* Python strings are sequences of tokens (a word, a blank, a punctuation  *)
(* mark), so that "a in b" is sub-sequence containment and quote_plus is a *)
(* real re-encoding.  The libraries the code calls (pyodbc, sqlalchemy,    *)
(* logging) are the environment: each library call that can raise does so  *)
(* or not by a nondeterministic "fate", and every handler records the      *)
(* library calls it made (calls) and the log lines it wrote (logs).        *)
(***************************************************************************)
EXTENDS Integers, Sequences, FiniteSets, TLC

VARIABLES
    installed,  \* what pyodbc.drivers() returns: a list of driver names
    environ,    \* os.environ: the values of SQLUID and SQLPWD (None if not set)
    self,       \* the attributes of the MSSQLDatabaseManager instance
    held,       \* TRUE iff the caller holds the instance (__init__ returned)
    op,         \* the last operation called
    args,       \* its arguments
    raised,     \* TRUE iff it raised to the caller
    ret,        \* the value it returned (None if it raised or returns nothing)
    logs,       \* the log lines it wrote, in order: <<level, message>>
    calls,      \* the library calls it made, in order: <<receiver, method>>
    tx          \* the state of the per-call transaction of the last run_query

vars == <<installed, environ, self, held, op, args, raised, ret, logs, calls, tx>>

-----------------------------------------------------------------------------
(* Bounds *)

\* longest list of installed drivers
MaxDrivers == 2

-----------------------------------------------------------------------------
(* Python values *)

\* Python's None, distinct from every string (the empty string is <<>>)
None == <<"<None>">>
\* an attribute that was never assigned
Unset == <<"<unset>">>

\* truth value of a str-or-None
Truthy(v) == v # None /\ v # <<>>

\* "a or b"
Or(a, b) == IF Truthy(a) THEN a ELSE b

\* str(v) as an f-string formats it
Str(v) == IF v = None THEN <<"None">> ELSE v

\* "sub in s" for strings: s has sub as a contiguous part
Contains(sub, s) ==
    \E i \in 0..(Len(s) - Len(sub)) : SubSeq(s, i + 1, i + Len(sub)) = sub

SQLServer == <<"SQL", " ", "Server">>

\* database-system families a caller may pass to find_driver
Families == { SQLServer, <<"MySQL">>, <<"SQL">>, <<"PostgreSQL">> }

\* driver names an ODBC installation may list
DriverNames ==
    { <<"ODBC", " ", "Driver", " ", "13", " ", "for", " ", "SQL", " ", "Server">>,
      <<"ODBC", " ", "Driver", " ", "17", " ", "for", " ", "SQL", " ", "Server">>,
      <<"SQL", " ", "Server">>,
      <<"MySQL", " ", "ODBC", " ", "8.0", " ", "Driver">> }

DriverLists == UNION { [1..n -> DriverNames] : n \in 0..MaxDrivers }

-----------------------------------------------------------------------------
(* Log lines *)

ErrInvalidSystem == <<"ERROR", "Invalid database system. Please provide a valid database system name.">>
ErrNoDriver      == <<"ERROR", "ODBC Driver for SQL Server not found. Please install the driver and try again.">>
InfoConnected    == <<"INFO", "DB Connected!">>
ErrConnection    == <<"ERROR", "Connection error">>
InfoExecuting    == <<"INFO", "Executing query">>
InfoExecuted     == <<"INFO", "Query executed successfully!">>
ErrQuery         == <<"ERROR", "Query execution error">>
InfoDisconnected == <<"INFO", "DB Disconnected!">>
ErrDisconnection == <<"ERROR", "Disconnection error">>

-----------------------------------------------------------------------------
(* find_driver *)

\* first match instead of last
find_driver_first(db_system) ==
    IF db_system \notin {SQLServer}
    THEN [ret |-> None, logs |-> <<ErrInvalidSystem>>]
    ELSE LET drivers == SelectSeq(installed, LAMBDA driver : Contains(db_system, driver))
         IN  IF drivers # <<>>
             THEN [ret |-> drivers[1], logs |-> <<>>]
             ELSE [ret |-> None, logs |-> <<>>]

\* no check of the family
find_driver_anyfamily(db_system) ==
    LET drivers == SelectSeq(installed, LAMBDA driver : Contains(db_system, driver))
    IN  IF drivers # <<>>
        THEN [ret |-> drivers[Len(drivers)], logs |-> <<>>]
        ELSE [ret |-> None, logs |-> <<>>]

\* the value find_driver returns and the log lines it writes
find_driver(db_system) ==
    IF db_system \notin {SQLServer}
    THEN [ret |-> None, logs |-> <<ErrInvalidSystem>>]
    ELSE LET drivers == SelectSeq(installed, LAMBDA driver : Contains(db_system, driver))
         IN  IF drivers # <<>>
             THEN [ret |-> drivers[Len(drivers)], logs |-> <<>>]
             ELSE [ret |-> None, logs |-> <<>>]

-----------------------------------------------------------------------------
(* MSSQLDatabaseManager.__init__ *)

\* default port of __init__
DefaultPort == 44324

Databases == { <<"Sales">> }
Servers   == { <<"db.perseus.com.br">> }
Ports     == { DefaultPort }
Users     == { None, <<>>, <<"u">> }
Passwords == { None, <<"p">> }
EnvUsers  == { None, <<"envu">> }
EnvPwds   == { None, <<"envp">> }
\* os.environ: both variables set, or neither
Environs  == { e \in [SQLUID : EnvUsers, SQLPWD : EnvPwds] :
                   (e.SQLUID = None) <=> (e.SQLPWD = None) }

\* urllib.parse.quote_plus of one token: letters, digits and "_.-~" are kept,
\* a blank becomes "+", any other character becomes %XX
QuoteToken(t) ==
    CASE t = " " -> "+"
      [] t = "=" -> "%3D"
      [] t = ";" -> "%3B"
      [] t = "," -> "%2C"
      [] OTHER   -> t

quote_plus(s) == [i \in 1..Len(s) |-> QuoteToken(s[i])]

\* the object before __init__ assigned anything
NewObject ==
    [driver |-> Unset, server |-> Unset, port |-> 0, database |-> Unset,
     user |-> Unset, password |-> Unset, use_trusted_connection |-> FALSE,
     params |-> Unset, engine |-> "unset", session |-> "unset", conn |-> "unset"]

\* the credentials are written whatever the flag says
odbc_connect_params_always_uid(driver, server, port, database, user, password, use_trusted_connection) ==
    quote_plus(<<"DRIVER", "=">> \o Str(driver) \o <<";">>
               \o <<"SERVER", "=">> \o Str(server) \o <<",", ToString(port), ";">>
               \o <<"DATABASE", "=">> \o Str(database) \o <<";">>
               \o <<"UID", "=">> \o Str(user) \o <<";">>
               \o <<"PWD", "=">> \o Str(password) \o <<";">>
               \o (IF use_trusted_connection
                   THEN <<"Trusted_Connection", "=", "yes", ";">>
                   ELSE <<"Trusted_Connection", "=", "no", ";">>))

\* self.params: the URL-escaped ODBC connection string
odbc_connect_params(driver, server, port, database, user, password, use_trusted_connection) ==
    IF use_trusted_connection
    THEN quote_plus(<<"DRIVER", "=">> \o Str(driver) \o <<";">>
                    \o <<"SERVER", "=">> \o Str(server) \o <<",", ToString(port), ";">>
                    \o <<"DATABASE", "=">> \o Str(database) \o <<";">>
                    \o <<"Trusted_Connection", "=", "yes", ";">>)
    ELSE quote_plus(<<"DRIVER", "=">> \o Str(driver) \o <<";">>
                    \o <<"SERVER", "=">> \o Str(server) \o <<",", ToString(port), ";">>
                    \o <<"DATABASE", "=">> \o Str(database) \o <<";">>
                    \o <<"UID", "=">> \o Str(user) \o <<";">>
                    \o <<"PWD", "=">> \o Str(password) \o <<";">>
                    \o <<"Trusted_Connection", "=", "no", ";">>)

\* the library calls of __init__ that can raise, and "ok" when none does
ConnectFates == { "ok", "create_engine", "session", "connect" }

\* the success line is written before the connection is opened
open_session_log_early(obj, fate) ==
    IF fate = "create_engine"
    THEN [self |-> obj, raised |-> TRUE, logs |-> <<ErrConnection>>,
          calls |-> << <<"sqlalchemy", "create_engine">> >>]
    ELSE IF fate = "session"
    THEN [self |-> [obj EXCEPT !.engine = "live"], raised |-> TRUE,
          logs |-> <<ErrConnection>>,
          calls |-> << <<"sqlalchemy", "create_engine">>, <<"sessionmaker", "call">> >>]
    ELSE IF fate = "connect"
    THEN [self |-> [obj EXCEPT !.engine = "live", !.session = "open"], raised |-> TRUE,
          logs |-> <<InfoConnected, ErrConnection>>,
          calls |-> << <<"sqlalchemy", "create_engine">>, <<"sessionmaker", "call">>,
                       <<"engine", "connect">> >>]
    ELSE [self |-> [obj EXCEPT !.engine = "live", !.session = "open", !.conn = "open"],
          raised |-> FALSE, logs |-> <<InfoConnected>>,
          calls |-> << <<"sqlalchemy", "create_engine">>, <<"sessionmaker", "call">>,
                       <<"engine", "connect">> >>]

\* the try block of __init__: engine, session, connection, in this order; the
\* first call that raises ends it in the except clause, which logs and re-raises
open_session(obj, fate) ==
    IF fate = "create_engine"
    THEN [self |-> obj, raised |-> TRUE, logs |-> <<ErrConnection>>,
          calls |-> << <<"sqlalchemy", "create_engine">> >>]
    ELSE IF fate = "session"
    THEN [self |-> [obj EXCEPT !.engine = "live"], raised |-> TRUE,
          logs |-> <<ErrConnection>>,
          calls |-> << <<"sqlalchemy", "create_engine">>, <<"sessionmaker", "call">> >>]
    ELSE IF fate = "connect"
    THEN [self |-> [obj EXCEPT !.engine = "live", !.session = "open"], raised |-> TRUE,
          logs |-> <<ErrConnection>>,
          calls |-> << <<"sqlalchemy", "create_engine">>, <<"sessionmaker", "call">>,
                       <<"engine", "connect">> >>]
    ELSE [self |-> [obj EXCEPT !.engine = "live", !.session = "open", !.conn = "open"],
          raised |-> FALSE, logs |-> <<InfoConnected>>,
          calls |-> << <<"sqlalchemy", "create_engine">>, <<"sessionmaker", "call">>,
                       <<"engine", "connect">> >>]

\* the attributes __init__ assigns before the try block
profile(found, database, server, port, user, password, use_trusted_connection) ==
    LET u == Or(user, environ.SQLUID)
        p == Or(password, environ.SQLPWD)
    IN  [NewObject EXCEPT
            !.driver = found.ret, !.server = server, !.port = port,
            !.database = database, !.user = u, !.password = p,
            !.use_trusted_connection = use_trusted_connection,
            !.params = odbc_connect_params(found.ret, server, port, database, u, p,
                                           use_trusted_connection)]

\* the missing driver is logged but construction goes on
__init__no_raise(database, server, port, user, password, use_trusted_connection, fate) ==
    LET found == find_driver(SQLServer)
        r == open_session(profile(found, database, server, port, user, password,
                                  use_trusted_connection), fate)
    IN  IF ~Truthy(found.ret)
        THEN [r EXCEPT !.logs = found.logs \o <<ErrNoDriver>> \o r.logs]
        ELSE [r EXCEPT !.logs = found.logs \o r.logs]

\* the whole constructor: the object it leaves, whether it raised, its log
\* lines and its library calls
__init__(database, server, port, user, password, use_trusted_connection, fate) ==
    LET found == find_driver(SQLServer)
    IN  IF ~Truthy(found.ret)
        THEN [self |-> [NewObject EXCEPT !.driver = found.ret], raised |-> TRUE,
              logs |-> found.logs \o <<ErrNoDriver>>, calls |-> <<>>]
        ELSE LET r == open_session(profile(found, database, server, port, user, password,
                                           use_trusted_connection), fate)
             IN  [r EXCEPT !.logs = found.logs \o r.logs]

-----------------------------------------------------------------------------
(* MSSQLDatabaseManager.run_query *)

Queries == { <<"SELECT", " ", "1">> }

\* the library calls of run_query that can raise, and "ok" when none does:
\* engine.begin() on entering the scope, conn.execute, self.session.commit
\* (called only when commit is true), and the commit of the per-call
\* transaction on leaving the scope
QueryFates == { "ok", "begin", "execute", "session_commit", "tx_commit" }

Result == <<"result">>

\* the session is committed whatever the commit flag says
transaction_scope_ignores_flag(commit, fate) ==
    IF fate = "begin"
    THEN [raised |-> TRUE, ret |-> None, tx |-> "none", logs |-> <<>>,
          calls |-> << <<"engine", "begin">> >>]
    ELSE IF fate = "execute"
    THEN [raised |-> TRUE, ret |-> None, tx |-> "rolled_back", logs |-> <<>>,
          calls |-> << <<"engine", "begin">>, <<"tx", "execute">>, <<"tx", "rollback">> >>]
    ELSE IF fate = "session_commit"
    THEN [raised |-> TRUE, ret |-> None, tx |-> "rolled_back", logs |-> <<>>,
          calls |-> << <<"engine", "begin">>, <<"tx", "execute">>, <<"session", "commit">>,
                       <<"tx", "rollback">> >>]
    ELSE IF fate = "tx_commit"
    THEN [raised |-> TRUE, ret |-> None, tx |-> "commit_failed", logs |-> <<InfoExecuted>>,
          calls |-> << <<"engine", "begin">>, <<"tx", "execute">>, <<"session", "commit">>,
                       <<"tx", "commit">>, <<"tx", "rollback">> >>]
    ELSE [raised |-> FALSE, ret |-> Result, tx |-> "committed", logs |-> <<InfoExecuted>>,
          calls |-> << <<"engine", "begin">>, <<"tx", "execute">>, <<"session", "commit">>,
                       <<"tx", "commit">> >>]

\* the commit flag commits the per-call transaction instead of the session,
\* and without the flag the per-call transaction is rolled back
transaction_scope_commit_tx(commit, fate) ==
    IF fate = "begin"
    THEN [raised |-> TRUE, ret |-> None, tx |-> "none", logs |-> <<>>,
          calls |-> << <<"engine", "begin">> >>]
    ELSE IF fate = "execute"
    THEN [raised |-> TRUE, ret |-> None, tx |-> "rolled_back", logs |-> <<>>,
          calls |-> << <<"engine", "begin">>, <<"tx", "execute">>, <<"tx", "rollback">> >>]
    ELSE IF ~commit
    THEN [raised |-> FALSE, ret |-> Result, tx |-> "rolled_back", logs |-> <<InfoExecuted>>,
          calls |-> << <<"engine", "begin">>, <<"tx", "execute">>, <<"tx", "rollback">> >>]
    ELSE IF fate = "tx_commit"
    THEN [raised |-> TRUE, ret |-> None, tx |-> "commit_failed", logs |-> <<InfoExecuted>>,
          calls |-> << <<"engine", "begin">>, <<"tx", "execute">>, <<"tx", "commit">>,
                       <<"tx", "rollback">> >>]
    ELSE [raised |-> FALSE, ret |-> Result, tx |-> "committed", logs |-> <<InfoExecuted>>,
          calls |-> << <<"engine", "begin">>, <<"tx", "execute">>, <<"tx", "commit">> >>]

\* the scope "with self.engine.begin() as conn": the per-call transaction tx is
\* begun by the engine, the statement runs in it, self.session.commit() is
\* called when commit is true, the success line is written, and on leaving the
\* scope tx is committed; when the body raises, tx is rolled back instead, and
\* when the commit of tx raises, the scope rolls tx back and the error
\* propagates.  ret is the value "return result" would return.
transaction_scope(commit, fate) ==
    IF fate = "begin"
    THEN [raised |-> TRUE, ret |-> None, tx |-> "none", logs |-> <<>>,
          calls |-> << <<"engine", "begin">> >>]
    ELSE IF fate = "execute"
    THEN [raised |-> TRUE, ret |-> None, tx |-> "rolled_back", logs |-> <<>>,
          calls |-> << <<"engine", "begin">>, <<"tx", "execute">>, <<"tx", "rollback">> >>]
    ELSE IF commit /\ fate = "session_commit"
    THEN [raised |-> TRUE, ret |-> None, tx |-> "rolled_back", logs |-> <<>>,
          calls |-> << <<"engine", "begin">>, <<"tx", "execute">>, <<"session", "commit">>,
                       <<"tx", "rollback">> >>]
    ELSE LET body == << <<"engine", "begin">>, <<"tx", "execute">> >>
                     \o (IF commit THEN << <<"session", "commit">> >> ELSE <<>>)
         IN  IF fate = "tx_commit"
             THEN [raised |-> TRUE, ret |-> None, tx |-> "commit_failed",
                   logs |-> <<InfoExecuted>>,
                   calls |-> body \o << <<"tx", "commit">>, <<"tx", "rollback">> >>]
             ELSE [raised |-> FALSE, ret |-> Result, tx |-> "committed",
                   logs |-> <<InfoExecuted>>,
                   calls |-> body \o << <<"tx", "commit">> >>]

\* the except clause does not log
run_query_no_error_line(query, commit, fate) ==
    LET r == transaction_scope(commit, fate)
    IN  [r EXCEPT !.logs = <<InfoExecuting>> \o r.logs]

\* a closed connection handle is rejected before anything else is done
run_query_rejects_closed(query, commit, fate) ==
    IF self.conn # "open"
    THEN [raised |-> TRUE, ret |-> None, tx |-> "none", logs |-> <<ErrQuery>>,
          calls |-> <<>>]
    ELSE LET r == transaction_scope(commit, fate)
         IN  [r EXCEPT !.logs = <<InfoExecuting>> \o r.logs
                                \o (IF r.raised THEN <<ErrQuery>> ELSE <<>>)]

\* the outcome of run_query: whether it raised, what it returned, what became
\* of the per-call transaction, its log lines and its library calls.  The
\* attempt line comes first; whatever raises in the try block is logged by the
\* except clause and re-raised.  Nothing in run_query reads self.conn.
run_query(query, commit, fate) ==
    LET r == transaction_scope(commit, fate)
    IN  [r EXCEPT !.logs = <<InfoExecuting>> \o r.logs
                           \o (IF r.raised THEN <<ErrQuery>> ELSE <<>>)]

-----------------------------------------------------------------------------
(* MSSQLDatabaseManager.save_query_df *)

DataFrame == <<"DataFrame">>

\* pd.read_sql_query(query, self.engine): no logging, no except clause
save_query_df(query, fate) ==
    [raised |-> fate # "ok", ret |-> IF fate = "ok" THEN DataFrame ELSE None,
     logs |-> <<>>, calls |-> << <<"pandas", "read_sql_query">> >>]

-----------------------------------------------------------------------------
(* MSSQLDatabaseManager.disconnect *)

\* the library calls of disconnect that can raise, and "ok" when none does
DisconnectFates == { "ok", "close", "dispose" }

\* the engine is disposed although closing the connection failed
disconnect_dispose_anyway(obj, fate) ==
    IF fate = "close"
    THEN [self |-> [obj EXCEPT !.engine = "disposed"], raised |-> TRUE,
          logs |-> <<ErrDisconnection>>,
          calls |-> << <<"conn", "close">>, <<"engine", "dispose">> >>]
    ELSE IF fate = "dispose"
    THEN [self |-> [obj EXCEPT !.conn = "closed"], raised |-> TRUE,
          logs |-> <<ErrDisconnection>>,
          calls |-> << <<"conn", "close">>, <<"engine", "dispose">> >>]
    ELSE [self |-> [obj EXCEPT !.conn = "closed", !.engine = "disposed"], raised |-> FALSE,
          logs |-> <<InfoDisconnected>>,
          calls |-> << <<"conn", "close">>, <<"engine", "dispose">> >>]

\* the object disconnect leaves, whether it raised, its log lines and calls
disconnect(obj, fate) ==
    IF fate = "close"
    THEN [self |-> obj, raised |-> TRUE, logs |-> <<ErrDisconnection>>,
          calls |-> << <<"conn", "close">> >>]
    ELSE IF fate = "dispose"
    THEN [self |-> [obj EXCEPT !.conn = "closed"], raised |-> TRUE,
          logs |-> <<ErrDisconnection>>,
          calls |-> << <<"conn", "close">>, <<"engine", "dispose">> >>]
    ELSE [self |-> [obj EXCEPT !.conn = "closed", !.engine = "disposed"], raised |-> FALSE,
          logs |-> <<InfoDisconnected>>,
          calls |-> << <<"conn", "close">>, <<"engine", "dispose">> >>]

-----------------------------------------------------------------------------
(* The program *)

NoArgs == [db_system |-> None, query |-> None, commit |-> FALSE]

Init ==
    /\ installed \in DriverLists
    /\ environ \in Environs
    /\ self = NewObject
    /\ held = FALSE
    /\ op = "none"
    /\ args = NoArgs
    /\ raised = FALSE
    /\ ret = None
    /\ logs = <<>>
    /\ calls = <<>>
    /\ tx = "none"

\* a caller calls find_driver(db_system)
FindDriver ==
    \E db_system \in Families :
        LET r == find_driver(db_system)
        IN  /\ op' = "find_driver"
            /\ args' = [NoArgs EXCEPT !.db_system = db_system]
            /\ raised' = FALSE
            /\ ret' = r.ret
            /\ logs' = r.logs
            /\ calls' = <<>>
            /\ UNCHANGED <<installed, environ, self, held, tx>>

\* a caller calls MSSQLDatabaseManager(...).  The model follows one instance:
\* a new one is constructed when none is held (another instance would be
\* another object, and would not change this one); the caller holds it only
\* when __init__ returned
Construct ==
    /\ ~held
    /\ \E database \in Databases, server \in Servers, port \in Ports,
       user \in Users, password \in Passwords,
       use_trusted_connection \in BOOLEAN, fate \in ConnectFates :
        LET r == __init__(database, server, port, user, password,
                          use_trusted_connection, fate)
        IN  /\ op' = "__init__"
            /\ args' = NoArgs
            /\ self' = r.self
            /\ held' = ~r.raised
            /\ raised' = r.raised
            /\ ret' = None
            /\ logs' = r.logs
            /\ calls' = r.calls
            /\ tx' = "none"
            /\ UNCHANGED <<installed, environ>>

\* a caller calls run_query on the instance it holds, in whatever state
RunQuery ==
    /\ held
    /\ \E query \in Queries, commit \in BOOLEAN, fate \in QueryFates :
        LET r == run_query(query, commit, fate)
        IN  /\ op' = "run_query"
            /\ args' = [NoArgs EXCEPT !.query = query, !.commit = commit]
            /\ raised' = r.raised
            /\ ret' = r.ret
            /\ logs' = r.logs
            /\ calls' = r.calls
            /\ tx' = r.tx
            /\ UNCHANGED <<installed, environ, self, held>>

\* a caller calls save_query_df on the instance it holds
SaveQueryDf ==
    /\ held
    /\ \E query \in Queries, fate \in {"ok", "read_sql_query"} :
        LET r == save_query_df(query, fate)
        IN  /\ op' = "save_query_df"
            /\ args' = [NoArgs EXCEPT !.query = query]
            /\ raised' = r.raised
            /\ ret' = r.ret
            /\ logs' = r.logs
            /\ calls' = r.calls
            /\ UNCHANGED <<installed, environ, self, held, tx>>

\* a caller calls disconnect on the instance it holds
Disconnect ==
    /\ held
    /\ \E fate \in DisconnectFates :
        LET r == disconnect(self, fate)
        IN  /\ op' = "disconnect"
            /\ args' = NoArgs
            /\ self' = r.self
            /\ raised' = r.raised
            /\ ret' = None
            /\ logs' = r.logs
            /\ calls' = r.calls
            /\ UNCHANGED <<installed, environ, held, tx>>

Next == FindDriver \/ Construct \/ RunQuery \/ SaveQueryDf \/ Disconnect

Spec == Init /\ [][Next]_vars

-----------------------------------------------------------------------------
(* Properties *)

\* x is an element of the sequence seq
In(x, seq) == \E i \in DOMAIN seq : seq[i] = x

\* the number of times x occurs in seq
Count(x, seq) == Cardinality({ i \in DOMAIN seq : seq[i] = x })

\* the log lines of one level
Level(lv) == SelectSeq(logs, LAMBDA line : line[1] = lv)

\* some installed driver name contains "SQL Server"
DriverInstalled == \E i \in DOMAIN installed : Contains(SQLServer, installed[i])

\* C1: when no installed driver name contains "SQL Server", __init__ raises,
\* the caller holds no instance, the only log line is the driver-not-found
\* error, no library call was made (no connection attempt) and neither engine
\* nor session nor connection handle exists.
C1_NoDriverIsFatal ==
    (op = "__init__" /\ ~DriverInstalled) =>
        /\ raised /\ ~held
        /\ logs = <<ErrNoDriver>>
        /\ calls = <<>>
        /\ self.driver = None
        /\ self.engine = "unset" /\ self.session = "unset" /\ self.conn = "unset"
        /\ self.params = Unset

C1_Witness ==
    /\ op = "__init__" /\ ~DriverInstalled /\ installed # <<>>
    /\ raised /\ logs = <<ErrNoDriver>>

\* C2: run_query with commit=false never calls the commit of the session; with
\* commit=true a call that returns has called commit exactly once, on the
\* session opened by __init__, after the statement and before the per-call
\* transaction is committed; and when commit=true and the session commit was
\* not called, the call raised because the statement was not executed.
C2_SessionCommitFollowsFlag ==
    op = "run_query" =>
        /\ ~args.commit => ~In(<<"session", "commit">>, calls)
        /\ (args.commit /\ ~raised) =>
              /\ Count(<<"session", "commit">>, calls) = 1
              /\ calls = << <<"engine", "begin">>, <<"tx", "execute">>,
                            <<"session", "commit">>, <<"tx", "commit">> >>
              /\ self.session = "open"
        /\ (args.commit /\ ~In(<<"session", "commit">>, calls)) =>
              /\ raised
              /\ calls \in { << <<"engine", "begin">> >>,
                             << <<"engine", "begin">>, <<"tx", "execute">>,
                                <<"tx", "rollback">> >> }

C2_Witness ==
    /\ op = "run_query" /\ args.commit /\ ~raised
    /\ In(<<"session", "commit">>, calls)

\* C3: for family "SQL Server", find_driver returns the installed driver name
\* of the greatest index among those that contain "SQL Server", and None when
\* there is none (the empty list included); __init__ stores that value.
LastMatch(v) ==
    \/ v = None /\ ~DriverInstalled
    \/ \E k \in DOMAIN installed :
          /\ v = installed[k]
          /\ Contains(SQLServer, installed[k])
          /\ \A j \in DOMAIN installed : j > k => ~Contains(SQLServer, installed[j])

C3_LastMatchingDriver ==
    /\ (op = "find_driver" /\ args.db_system = SQLServer) =>
          (LastMatch(ret) /\ ~raised /\ logs = <<>>)
    /\ op = "__init__" => LastMatch(self.driver)

C3_Witness ==
    /\ op = "find_driver" /\ args.db_system = SQLServer
    /\ Len(installed) = 2 /\ installed[1] # installed[2]
    /\ Contains(SQLServer, installed[1]) /\ Contains(SQLServer, installed[2])
    /\ ret = installed[2]

\* C4: for a family other than "SQL Server", find_driver returns None, writes
\* exactly one log line, an error, and does not raise, whatever is installed.
C4_UnsupportedFamily ==
    (op = "find_driver" /\ args.db_system # SQLServer) =>
        /\ ret = None
        /\ ~raised
        /\ logs = <<ErrInvalidSystem>>
        /\ Len(Level("ERROR")) = 1

C4_Witness ==
    /\ op = "find_driver" /\ args.db_system = <<"MySQL">>
    /\ \E i \in DOMAIN installed : Contains(<<"MySQL">>, installed[i])
    /\ ret = None /\ logs = <<ErrInvalidSystem>>

\* the escaped connection string has the field key=value;
HasField(key, value) == Contains(quote_plus(<<key, "=">> \o value \o <<";">>), self.params)

\* the escaped connection string has a field of that key
HasKey(key) == Contains(quote_plus(<<key, "=">>), self.params)

\* C5: in the connection string __init__ assembles, use_trusted_connection
\* alone decides the credentials: when true there is Trusted_Connection=yes and
\* neither a UID nor a PWD field, whatever user and password are; when false
\* there are the UID and PWD fields and Trusted_Connection=no.  Either way it
\* has the driver, the server with the port, and the database.
C5_TrustedFlagDecidesCredentials ==
    self.params # Unset =>
        /\ HasField("DRIVER", self.driver)
        /\ HasField("SERVER", self.server \o <<",", ToString(self.port)>>)
        /\ HasField("DATABASE", self.database)
        /\ Count("Trusted_Connection", self.params) = 1
        /\ IF self.use_trusted_connection
           THEN /\ HasField("Trusted_Connection", <<"yes">>)
                /\ ~HasKey("UID") /\ ~HasKey("PWD")
           ELSE /\ HasField("Trusted_Connection", <<"no">>)
                /\ HasField("UID", Str(self.user))
                /\ HasField("PWD", Str(self.password))

C5_Witness ==
    /\ op = "__init__" /\ self.params # Unset
    /\ self.use_trusted_connection
    /\ Truthy(self.user) /\ Truthy(self.password)
    /\ ~HasKey("UID") /\ ~HasKey("PWD")

\* C6: __init__ writes exactly one log line: the informational line when it
\* returns, an error line when it raises.  When a call of the try block raised,
\* each library call was made at most once (no retry), nothing was closed,
\* disposed or rolled back, and what the calls before the failing one created
\* is still there.
C6_OneLogLinePerConstruction ==
    op = "__init__" =>
        /\ Len(logs) = 1
        /\ ~raised => (logs = <<InfoConnected>> /\ held)
        /\ raised => (logs[1][1] = "ERROR" /\ Level("INFO") = <<>> /\ ~held)
        /\ (raised /\ calls # <<>>) =>
              /\ logs = <<ErrConnection>>
              /\ \A i, j \in DOMAIN calls : calls[i] = calls[j] => i = j
              /\ \A i \in DOMAIN calls :
                    calls[i] \in { <<"sqlalchemy", "create_engine">>,
                                   <<"sessionmaker", "call">>, <<"engine", "connect">> }
              /\ Len(calls) >= 2 => self.engine = "live"
              /\ Len(calls) >= 3 => self.session = "open"
              /\ self.conn = "unset"

C6_Witness ==
    /\ op = "__init__" /\ raised
    /\ In(<<"engine", "connect">>, calls)
    /\ self.engine = "live" /\ self.session = "open" /\ self.conn = "unset"
    /\ logs = <<ErrConnection>>

\* C7: disconnect calls conn.close first and engine.dispose second, and the
\* latter only when the former returned; an error in either is logged and
\* re-raised; the success line is written only when both returned; when dispose
\* raised the connection stays closed, when close raised dispose is not called.
C7_CloseThenDispose ==
    op = "disconnect" =>
        /\ calls \in { << <<"conn", "close">> >>,
                       << <<"conn", "close">>, <<"engine", "dispose">> >> }
        /\ In(<<"engine", "dispose">>, calls) => self.conn = "closed"
        /\ raised => logs = <<ErrDisconnection>>
        /\ ~raised => /\ logs = <<InfoDisconnected>>
                      /\ Len(calls) = 2
                      /\ self.conn = "closed" /\ self.engine = "disposed"
        /\ Len(calls) = 1 => raised

C7_Witness ==
    /\ op = "disconnect" /\ raised
    /\ In(<<"engine", "dispose">>, calls)
    /\ self.conn = "closed" /\ self.engine = "live"

\* C8 as stated: every run_query call writes the attempt line and the success
\* line, and a call that raises writes a third line.
C8_Original ==
    op = "run_query" =>
        /\ Len(logs) >= 2
        /\ logs[1] = InfoExecuting /\ logs[2] = InfoExecuted
        /\ raised => Len(logs) = 3

\* C8 amended: every run_query call writes the attempt line first.  A call that
\* returns writes the success line next and nothing else.  A call that raises
\* writes the error line last; the success line is between the two only when
\* the commit of the per-call transaction on leaving the scope was reached,
\* otherwise the call writes two lines, attempt and error.
C8_LogLinesOfRunQuery ==
    op = "run_query" =>
        /\ logs[1] = InfoExecuting
        /\ ~raised => logs = <<InfoExecuting, InfoExecuted>>
        /\ raised =>
              IF In(<<"tx", "commit">>, calls)
              THEN logs = <<InfoExecuting, InfoExecuted, ErrQuery>>
              ELSE logs = <<InfoExecuting, ErrQuery>>

C8_Witness ==
    /\ op = "run_query" /\ raised
    /\ In(<<"tx", "execute">>, calls)
    /\ logs = <<InfoExecuting, ErrQuery>>

\* disconnect has completed on the instance
Disconnected == held /\ self.conn = "closed" /\ self.engine = "disposed"

BodyCompleted == In(InfoExecuted, logs)

====
